---- MODULE Spec2Model ----
(***************************************************************************)
(* Model of the reference-counting weak cache of src/cache.go.             *)
(*                                                                         *)
(* The cache keeps two maps from a 64-bit key hash to a Record, one for    *)
(* records that have live pointers outside of the cache ("reachable") and  *)
(* one for records that have none ("unreachable").  Fetch returns a        *)
(* pointer to a private copy of the record; a finalizer set on that        *)
(* pointer starts a goroutine running unref(index) once the garbage        *)
(* collector finds the pointer unreachable.  A background goroutine        *)
(* (gcLoop) deletes expired records of the unreachable map on every tick.  *)
(*                                                                         *)
(* Every section of code that runs with c.mu held is one atomic action.    *)
(* Time is the value of time.Now().UnixNano(), abstracted to a small       *)
(* counter that only moves forward.                                        *)
(***************************************************************************)
EXTENDS Integers, Sequences, FiniteSets, TLC

\* ---------------------------------------------------------------- bounds
\* Largest clock value of the model.
MaxTime == 3
\* Largest number of Fetch calls in one behaviour.
MaxCalls == 3
\* Largest minTTL / maxTTL argument passed to Fetch.
MaxTTL == 1
\* Width in bits of the machine word (int64, uint), scaled down.
WordBits == 8

\* ------------------------------------------------------- sets of inputs
Keys == {"a", "b"}
Indices == {1, 2}
Procs == {"p1", "p2"}
TTLs == 0..MaxTTL
NoKey == "none"
\* The seeds of maphash.MakeSeed(), each as the key -> index map it induces.
\* The cache compares indices only with each other, so the index of key "a"
\* is fixed; the second seed makes the two keys collide.
Seeds == {s \in [Keys -> Indices] : s["a"] = 1}

VARIABLES
    seed,         \* c.seed: the hash seed, as the key -> index map it induces
    reachable,    \* c.reachable
    unreachable,  \* c.unreachable
    quit,         \* c.quit: "open" or "closed"
    panicked,     \* TRUE once the runtime has panicked (close of closed channel)
    now,          \* the clock read by time.Now() and by the ticker (> 0)
    gcPc,         \* position of the gcLoop goroutine: "select" or "exit"
    pending,      \* per caller: the key of its Fetch call waiting for c.mu
    handles,      \* every *Record returned by Fetch, in order of issue
    nCalls,       \* number of Fetch calls started
    nProduced,    \* number of values produced by fetch callbacks so far
    race          \* history of the last pair of overlapping Fetch calls

vars == <<seed, reachable, unreachable, quit, panicked, now, gcPc,
          pending, handles, nCalls, nProduced, race>>

\* ------------------------------------------------------------- Record
\* type Record struct { Value; minTTL; expires; refs; lastUnref }
Record(value, minTTL, expires, refs, lastUnref) ==
    [Value |-> value, minTTL |-> minTTL, expires |-> expires,
     refs |-> refs, lastUnref |-> lastUnref]

\* Largest int64, and int64 / uint arithmetic, at the scaled width.
IntMax == 2^(WordBits - 1) - 1

WrapInt(x) == ((x + 2^(WordBits - 1)) % 2^WordBits) - 2^(WordBits - 1)

WrapUint(x) == x % 2^WordBits

\* isExpired without its second clause: the maxTTL is never looked at.
isExpiredGraceOnly(r, t) ==
    r.lastUnref > 0 /\ WrapInt(r.lastUnref + r.minTTL) < t

\* isExpired without its first clause: the grace period never runs out.
isExpiredMaxOnly(r, t) == r.expires > 0 /\ r.expires < t

\* isExpired with the comparison of its first clause turned around.
isExpiredInverted(r, t) ==
    IF r.lastUnref > 0 /\ WrapInt(r.lastUnref + r.minTTL) > t
    THEN TRUE
    ELSE IF r.expires > 0 /\ r.expires < t
         THEN TRUE
         ELSE FALSE

\* func (r Record) isExpired(now int64) bool
isExpired(r, t) ==
    IF r.lastUnref > 0 /\ WrapInt(r.lastUnref + r.minTTL) < t
    THEN TRUE
    ELSE IF r.expires > 0 /\ r.expires < t
         THEN TRUE
         ELSE FALSE

\* A delete that is left out.
DeleteNone(m, i) == m

\* delete(m, index)
Delete(m, i) == [j \in DOMAIN m \ {i} |-> m[j]]

\* m[index] = rec
Put(m, i, r) == [j \in DOMAIN m \cup {i} |-> IF j = i THEN r ELSE m[j]]

\* func (c *Cache) index(key string) uint64
index(key) == seed[key]

\* func (c *Cache) Len() int
CacheLen == Cardinality(DOMAIN reachable) + Cardinality(DOMAIN unreachable)

\* ------------------------------------------------------ Cache.fetch
\* The closure get() of Cache.fetch, split into what it returns and what it
\* leaves in the two maps.

\* get() of a cache that finds nothing once it is closed.
getFoundOpen(i) ==
    /\ quit = "open"
    /\ IF i \in DOMAIN unreachable
       THEN ~isExpired(unreachable[i], now)
       ELSE IF i \in DOMAIN reachable
            THEN ~isExpired(reachable[i], now)
            ELSE FALSE

\* get() that returns whatever record it finds.
getFoundAny(i) == i \in DOMAIN unreachable \/ i \in DOMAIN reachable

\* get() returned a record (the record found, when it is not expired).
getFound(i) ==
    IF i \in DOMAIN unreachable
    THEN ~isExpired(unreachable[i], now)
    ELSE IF i \in DOMAIN reachable
         THEN ~isExpired(reachable[i], now)
         ELSE FALSE

\* A hit that resets the minTTL of the record it returns.
getRecordNoGrace(i) ==
    [(IF i \in DOMAIN unreachable THEN unreachable[i] ELSE reachable[i])
        EXCEPT !.minTTL = 0]

\* The record get() returns when getFound(i).
getRecord(i) ==
    IF i \in DOMAIN unreachable THEN unreachable[i] ELSE reachable[i]

\* get() without its delete(c.unreachable, index).
getUnreachableKeep(i) == unreachable

\* c.unreachable after get(): an unreachable record is always taken out.
getUnreachable(i) ==
    IF i \in DOMAIN unreachable THEN Delete(unreachable, i) ELSE unreachable

\* c.reachable after get(): an expired reachable record is deleted.
getReachable(i) ==
    IF i \notin DOMAIN unreachable /\ i \in DOMAIN reachable
       /\ isExpired(reachable[i], now)
    THEN Delete(reachable, i)
    ELSE reachable

\* A new record that starts with a reference count of 1, before rec.refs++.
newRecordReferenced(value, minTTL, maxTTL) ==
    Record(value, minTTL, IF maxTTL > 0 THEN now + maxTTL ELSE 0, 1, 0)

\* rec = &Record{Value: value, minTTL: int64(minTTL)};
\* if maxTTL > 0 { rec.expires = now.Add(maxTTL).UnixNano() }
newRecord(value, minTTL, maxTTL) ==
    Record(value, minTTL, IF maxTTL > 0 THEN now + maxTTL ELSE 0, 0, 0)

\* Cache.fetch without its rec.refs++.
incRefsNone(r) == r

\* rec.refs = 1 in place of rec.refs++.
incRefsSet(r) == [r EXCEPT !.refs = 1]

\* rec.refs++
incRefs(r) == [r EXCEPT !.refs = WrapUint(@ + 1)]

\* A *Record handed to a caller: the index captured by its finalizer, the
\* Record it points to, and whether Fetch called the fetch callback for it.
Handle(i, r, produced) ==
    [idx |-> i, rec |-> r, st |-> "held", produced |-> produced]

\* A pointer whose finalizer has run and whose unref goroutine has finished:
\* the Record it pointed to is freed.
Collected ==
    [idx |-> 0, rec |-> Record(0, 0, 0, 0, 0), st |-> "done", produced |-> FALSE]

NoRace == [idx |-> 0, left |-> 0, calls |-> 0, clean |-> TRUE]

\* ------------------------------------------------------------- Init
\* func New(gcInterval time.Duration) *Cache
Init ==
    /\ seed \in Seeds
    /\ reachable = <<>>
    /\ unreachable = <<>>
    /\ quit = "open"
    /\ panicked = FALSE
    /\ now = 1
    /\ gcPc = "select"
    /\ pending = [p \in Procs |-> NoKey]
    /\ handles = <<>>
    /\ nCalls = 0
    /\ nProduced = 0
    /\ race = NoRace

\* ------------------------------------------------------------ actions
\* The clock advances.
Tick ==
    /\ ~panicked
    /\ now < MaxTime
    /\ now' = now + 1
    /\ UNCHANGED <<seed, reachable, unreachable, quit, panicked, gcPc,
                   pending, handles, nCalls, nProduced, race>>

\* Fetch, up to c.mu.Lock() in Cache.fetch: the index is computed and the
\* call waits for the mutex.  The remaining arguments are not read before the
\* mutex is held; FetchLocked draws them.
FetchCall(p, key) ==
    /\ ~panicked
    /\ pending[p] = NoKey
    /\ nCalls < MaxCalls
    /\ pending' = [pending EXCEPT ![p] = key]
    /\ nCalls' = nCalls + 1
    /\ race' = IF /\ \E q \in Procs \ {p} : /\ pending[q] # NoKey
                                            /\ index(pending[q]) = index(key)
                  /\ index(key) \notin DOMAIN reachable \cup DOMAIN unreachable
               THEN [idx |-> index(key), left |-> 2, calls |-> 0, clean |-> TRUE]
               ELSE race
    /\ UNCHANGED <<seed, reachable, unreachable, quit, panicked, now, gcPc,
                   handles, nProduced>>

\* Cache.fetch with c.mu held, then SetFinalizer and return in Fetch.
\* ok is the outcome of the fetch callback, when it is called.  The callbacks
\* return a value no callback returned before (the values are numbered), so
\* that a record is told from its replacement by its Value.
FetchLocked(p, minTTL, maxTTL, ok) ==
    /\ ~panicked
    /\ pending[p] # NoKey
    /\ LET i == index(pending[p])
           found == getFound(i)
           inRace == race.left > 0 /\ race.idx = i
           rec == IF found
                  THEN incRefs(getRecord(i))
                  ELSE incRefs(newRecord(nProduced + 1, minTTL, maxTTL))
       IN  /\ unreachable' = getUnreachable(i)
           /\ IF found \/ ok
              THEN /\ reachable' = Put(getReachable(i), i, rec)
                   /\ handles' = Append(handles, Handle(i, rec, ~found))
              ELSE /\ reachable' = getReachable(i)
                   /\ handles' = handles
           /\ nProduced' = IF ~found /\ ok THEN nProduced + 1 ELSE nProduced
           /\ race' = IF inRace /\ race.left = 2
                      THEN [race EXCEPT !.left = 1,
                                        !.calls = IF found THEN 0 ELSE 1,
                                        !.clean = @ /\ (found \/ ok)]
                      ELSE IF inRace THEN NoRace ELSE race
    /\ pending' = [pending EXCEPT ![p] = NoKey]
    /\ UNCHANGED <<seed, quit, panicked, now, gcPc, nCalls>>

\* The garbage collector finds a returned pointer unreachable and runs its
\* finalizer, which starts the goroutine `go c.unref(index)`.
Finalize(h) ==
    /\ ~panicked
    /\ h \in DOMAIN handles
    /\ handles[h].st = "held"
    /\ handles' = [handles EXCEPT ![h].st = "dropped"]
    /\ UNCHANGED <<seed, reachable, unreachable, quit, panicked, now, gcPc,
                   pending, nCalls, nProduced, race>>

\* rec.refs-- on a uint
decRefs(r) == [r EXCEPT !.refs = WrapUint(@ - 1)]

\* func (c *Cache) unref(index uint64), started by the finalizer of handle h.
Unref(h) ==
    /\ ~panicked
    /\ h \in DOMAIN handles
    /\ handles[h].st = "dropped"
    /\ handles' = [handles EXCEPT ![h] = Collected]
    /\ LET i == handles[h].idx
       IN  /\ IF i \notin DOMAIN reachable
              THEN UNCHANGED <<reachable, unreachable>>
              ELSE LET rec == decRefs(reachable[i])
                   IN  IF rec.refs > 0
                       THEN /\ reachable' = Put(reachable, i, rec)
                            /\ unreachable' = unreachable
                       ELSE /\ reachable' = Delete(reachable, i)
                            /\ unreachable' =
                                 Put(unreachable, i, [rec EXCEPT !.lastUnref = now])
           /\ race' = IF race.left > 0 /\ race.idx = i
                      THEN [race EXCEPT !.clean = FALSE]
                      ELSE race
    /\ UNCHANGED <<seed, quit, panicked, now, gcPc, pending, nCalls,
                   nProduced>>

\* The loop body of gcLoop with c.mu held: delete the expired records of m.
sweepAll(m, t) == <<>>

\* gcLoop's range loop over c.unreachable with the tick time t.
sweep(m, t) == [j \in {k \in DOMAIN m : ~isExpired(m[k], t)} |-> m[j]]

\* gcLoop: case now := <-ticker.C.  t is the time the ticker put on its
\* channel; the loop receives it, and gets c.mu, at that time or later.
GcTick(t) ==
    /\ ~panicked
    /\ gcPc = "select"
    /\ t <= now
    /\ unreachable' = sweep(unreachable, t)
    /\ UNCHANGED <<seed, reachable, quit, panicked, now, gcPc, pending, handles,
                   nCalls, nProduced, race>>

\* gcLoop: case <-c.quit: return
GcQuit ==
    /\ ~panicked
    /\ gcPc = "select"
    /\ quit = "closed"
    /\ gcPc' = "exit"
    /\ UNCHANGED <<seed, reachable, unreachable, quit, panicked, now,
                   pending, handles, nCalls, nProduced, race>>

\* func (c *Cache) Close(): close(c.quit) panics on a closed channel.
Close ==
    /\ ~panicked
    /\ IF quit = "open"
       THEN /\ quit' = "closed"
            /\ panicked' = FALSE
       ELSE /\ quit' = quit
            /\ panicked' = TRUE
    /\ UNCHANGED <<seed, reachable, unreachable, now, gcPc, pending,
                   handles, nCalls, nProduced, race>>

\* The steps of a cache that nobody closes.
NextOpen ==
    \/ Tick
    \/ \E p \in Procs, key \in Keys : FetchCall(p, key)
    \/ \E p \in Procs, minTTL \in TTLs, maxTTL \in TTLs, ok \in BOOLEAN :
          FetchLocked(p, minTTL, maxTTL, ok)
    \/ \E h \in 1..MaxCalls : Finalize(h)
    \/ \E h \in 1..MaxCalls : Unref(h)
    \/ \E t \in 1..MaxTime : GcTick(t)

Next ==
    \/ NextOpen
    \/ GcQuit
    \/ Close

Spec == Init /\ [][Next]_vars

\* The scheduling the liveness of eviction rests on: the clock advances, the
\* ticker keeps delivering the current time to gcLoop while it runs, and every
\* goroutine started by a finalizer gets to run.
Fairness ==
    /\ WF_vars(Tick)
    /\ WF_vars(GcTick(now))
    /\ \A h \in 1..MaxCalls : WF_vars(Unref(h))

\* The behaviours of a cache that is never closed, fairly scheduled.
LiveSpec == Init /\ [][NextOpen]_vars /\ Fairness

\* ------------------------------------------------ vocabulary of the claims
TypeOK ==
    /\ seed \in Seeds
    /\ now \in 1..MaxTime
    /\ nCalls \in 0..MaxCalls
    /\ nProduced \in 0..MaxCalls
    /\ quit \in {"open", "closed"}
    /\ gcPc \in {"select", "exit"}
    /\ CacheLen \in 0..Cardinality(Indices)
    /\ Len(handles) <= MaxCalls

\* A record is stored under index i, in either map.
Stored(i) == i \in DOMAIN reachable \cup DOMAIN unreachable

StoredRec(i) == IF i \in DOMAIN reachable THEN reachable[i] ELSE unreachable[i]

\* The record's maxTTL is 0 or has not elapsed.
MaxTTLNotElapsed(r) == r.expires = 0 \/ r.expires >= now

\* The record's grace window is open: it was never unreferenced, or at most
\* minTTL ago.
GraceNotElapsed(r) == r.lastUnref = 0 \/ now <= r.lastUnref + r.minTTL

\* The step is the locked part of a Fetch call of caller p: the only step
\* that ends a pending call.
FetchStep(p) == pending[p] # NoKey /\ pending'[p] = NoKey

\* The step returned a pointer to its caller / the pointer it returned.
Issued == Len(handles') = Len(handles) + 1

NewHandle == handles'[Len(handles')]

\* The pointer h is in the hands of a caller / its unref has not run yet.
Held(h) == handles[h].st = "held"

Live(h) == handles[h].st \in {"held", "dropped"}

\* ---------------------------------------------------------------- claims

\* C1: while a handle to a record whose maxTTL is 0 or has not elapsed is
\* held, every Fetch on its key returns a handle without calling the fetch
\* callback, and the Value it returns is the Value of the held handle.
C1_HitAvoidsProducer ==
    [][\A p \in Procs : \A h \in DOMAIN handles :
          ( /\ FetchStep(p)
            /\ Held(h)
            /\ handles[h].idx = index(pending[p])
            /\ MaxTTLNotElapsed(handles[h].rec) )
          => ( /\ Issued
               /\ ~NewHandle.produced
               /\ NewHandle.rec.Value = handles[h].rec.Value )]_vars

\* C2: as long as the unref of a handle has not run, and the maxTTL of its
\* record is 0 or has not elapsed, the record is in the reachable map under
\* the handle's index.
C2_NoEvictionWhileReferenced ==
    \A h \in DOMAIN handles :
        (Live(h) /\ MaxTTLNotElapsed(handles[h].rec))
        => ( /\ handles[h].idx \in DOMAIN reachable
             /\ reachable[handles[h].idx].Value = handles[h].rec.Value )

\* C3, as stated: a Fetch whose fetch callback fails returns no handle and
\* leaves both maps as they were.
C3_ErrorLeavesMapsAlone ==
    [][\A p \in Procs :
          (FetchStep(p) /\ ~Issued)
          => ( /\ reachable' = reachable
               /\ unreachable' = unreachable
               /\ handles' = handles )]_vars

\* C3, amended: a Fetch whose fetch callback fails returns no handle, creates
\* no record and changes no reference count; the one change it makes to the
\* maps is to remove the record stored under its key, which was expired (its
\* grace window or its maxTTL had elapsed).  Len() is unchanged for an absent
\* key and one lower otherwise.
C3_ErrorOnlyDiscardsExpired ==
    [][\A p \in Procs :
          LET i == index(pending[p]) IN
          (FetchStep(p) /\ ~Issued)
          => ( /\ handles' = handles
               /\ nProduced' = nProduced
               /\ DOMAIN reachable' = DOMAIN reachable \ {i}
               /\ DOMAIN unreachable' = DOMAIN unreachable \ {i}
               /\ \A j \in DOMAIN reachable' : reachable'[j] = reachable[j]
               /\ \A j \in DOMAIN unreachable' : unreachable'[j] = unreachable[j]
               /\ Stored(i) => \/ ~GraceNotElapsed(StoredRec(i))
                               \/ ~MaxTTLNotElapsed(StoredRec(i))
               /\ CacheLen' = IF Stored(i) THEN CacheLen - 1 ELSE CacheLen )]_vars

\* Of two Fetch calls that have returned, one returned a handle, still held,
\* and the other failed and discarded the record of that handle: the store is
\* empty.
C3_Witness ==
    /\ nCalls = 2
    /\ \A p \in Procs : pending[p] = NoKey
    /\ Len(handles) = 1
    /\ Held(1)
    /\ CacheLen = 0

\* C4: a Fetch on a key whose stored record has a maxTTL that has elapsed
\* calls the fetch callback; when that succeeds, the handle carries the new
\* value and the new record is the only record of the key, in the reachable
\* map.
C4_MaxTTLExpiry ==
    [][\A p \in Procs :
          LET i == index(pending[p]) IN
          ( /\ FetchStep(p)
            /\ Stored(i)
            /\ StoredRec(i).expires > 0
            /\ StoredRec(i).expires < now )
          => ( /\ nProduced' = IF Issued THEN nProduced + 1 ELSE nProduced
               /\ i \notin DOMAIN unreachable'
               /\ Issued => /\ NewHandle.produced
                            /\ NewHandle.rec.Value # StoredRec(i).Value
                            /\ NewHandle.rec.Value = nProduced'
                            /\ i \in DOMAIN reachable'
                            /\ reachable'[i] = NewHandle.rec
               /\ ~Issued => i \notin DOMAIN reachable' )]_vars

\* An old handle is still held while the key has been fetched anew after the
\* maxTTL of the old record elapsed.
C4_Witness ==
    \E h1 \in DOMAIN handles, h2 \in DOMAIN handles :
        /\ Held(h1) /\ Held(h2)
        /\ handles[h1].idx = handles[h2].idx
        /\ handles[h1].rec.expires > 0
        /\ handles[h1].rec.expires < now
        /\ handles[h2].produced
        /\ handles[h2].rec.Value # handles[h1].rec.Value
        /\ handles[h2].idx \in DOMAIN reachable
        /\ reachable[handles[h2].idx].Value = handles[h2].rec.Value
        /\ CacheLen = 1

\* C5: a record whose maxTTL is 0 or has not elapsed leaves the store only
\* from the unreachable map, and only once more than minTTL has passed since
\* its reference count last dropped to zero.
C5_MinTTLGrace ==
    [][\A i \in Indices :
          ( /\ Stored(i)
            /\ MaxTTLNotElapsed(StoredRec(i))
            /\ ~ ( /\ i \in DOMAIN reachable' \cup DOMAIN unreachable'
                   /\ (IF i \in DOMAIN reachable' THEN reachable'[i]
                       ELSE unreachable'[i]).Value = StoredRec(i).Value ) )
          => ( /\ i \in DOMAIN unreachable
               /\ unreachable[i].lastUnref + unreachable[i].minTTL < now )]_vars

\* C6: a Fetch on a key whose record is in the unreachable map, with its grace
\* window and its maxTTL not elapsed, returns a handle with the record's Value
\* without calling the fetch callback, and moves the record to the reachable
\* map with a reference count of 1.
C6_Reactivation ==
    [][\A p \in Procs :
          LET i == index(pending[p]) IN
          ( /\ FetchStep(p)
            /\ i \in DOMAIN unreachable
            /\ GraceNotElapsed(unreachable[i])
            /\ MaxTTLNotElapsed(unreachable[i]) )
          => ( /\ Issued
               /\ ~NewHandle.produced
               /\ nProduced' = nProduced
               /\ NewHandle.rec.Value = unreachable[i].Value
               /\ i \notin DOMAIN unreachable'
               /\ i \in DOMAIN reachable'
               /\ reachable'[i].Value = unreachable[i].Value
               /\ reachable'[i].minTTL = unreachable[i].minTTL
               /\ reachable'[i].expires = unreachable[i].expires
               /\ reachable'[i].refs = 1 )]_vars

\* A handle obtained by reactivation is held: the record it points to was
\* unreferenced before, and is now in the reachable map with one reference.
C6_Witness ==
    \E h \in DOMAIN handles :
        /\ Held(h)
        /\ ~handles[h].produced
        /\ handles[h].rec.lastUnref > 0
        /\ handles[h].rec.refs = 1
        /\ handles[h].idx \in DOMAIN reachable
        /\ reachable[handles[h].idx] = handles[h].rec
        /\ handles[h].idx \notin DOMAIN unreachable

\* C7: in a cache that is not closed, a record created with minTTL = 0 and
\* maxTTL = 0, all of whose handles have been dropped and whose key no Fetch
\* targets any more, is eventually deleted from the store.  The clock of the
\* model stops at MaxTime, so a record unreferenced at MaxTime is left out.
C7_Released(i) ==
    /\ Stored(i)
    /\ StoredRec(i).minTTL = 0
    /\ StoredRec(i).expires = 0
    /\ \A h \in DOMAIN handles : handles[h].idx = i => ~Held(h)
    /\ nCalls = MaxCalls
    /\ \A p \in Procs : pending[p] = NoKey

C7_ClockRanOut(i) ==
    /\ i \in DOMAIN unreachable
    /\ unreachable[i].lastUnref = MaxTime

C7_GCEviction ==
    \A i \in Indices :
        C7_Released(i) ~> (~Stored(i) \/ C7_ClockRanOut(i))

\* The record of a released key has been swept while the cache is open.
C7_Witness ==
    /\ quit = "open"
    /\ nCalls = MaxCalls
    /\ \A p \in Procs : pending[p] = NoKey
    /\ Len(handles) > 0
    /\ \A h \in DOMAIN handles : handles[h].st = "done"
    /\ CacheLen = 0

\* C8: a Fetch on a key stored in neither map, with a fetch callback that
\* succeeds, calls it once, returns its value, and leaves a new record with a
\* reference count of 1 in the reachable map: Len() grows by 1.
C8_MissTriggersProducer ==
    [][\A p \in Procs :
          LET i == index(pending[p]) IN
          (FetchStep(p) /\ ~Stored(i) /\ Issued)
          => ( /\ NewHandle.produced
               /\ nProduced' = nProduced + 1
               /\ NewHandle.rec.Value = nProduced'
               /\ i \in DOMAIN reachable'
               /\ i \notin DOMAIN unreachable'
               /\ reachable'[i] = NewHandle.rec
               /\ reachable'[i].refs = 1
               /\ reachable'[i].lastUnref = 0
               /\ CacheLen' = CacheLen + 1 )]_vars

\* The first Fetch on an empty cache has returned.
C8_Witness ==
    /\ Len(handles) = 1
    /\ handles[1].produced
    /\ Held(1)
    /\ nCalls = 1
    /\ CacheLen = 1
    /\ handles[1].idx \in DOMAIN reachable
    /\ reachable[handles[1].idx].refs = 1

\* C9: of two overlapping Fetch calls on a key that was stored in neither map,
\* with no unref on the key and no failure of the fetch callback in between
\* and the maxTTL not elapsed, the first calls the fetch callback and the
\* second does not: it returns the value of the first, and the record is in the
\* reachable map with a reference count of 2.
C9_SerializedGetOrCompute ==
    [][\A p \in Procs :
          LET i == index(pending[p]) IN
          ( /\ FetchStep(p)
            /\ race.left = 1
            /\ race.idx = i
            /\ race.clean
            /\ i \in DOMAIN reachable => MaxTTLNotElapsed(reachable[i]) )
          => ( /\ race.calls = 1
               /\ i \in DOMAIN reachable
               /\ Issued
               /\ ~NewHandle.produced
               /\ nProduced' = nProduced
               /\ NewHandle.rec.Value = reachable[i].Value
               /\ \E h \in DOMAIN handles :
                     /\ handles[h].produced
                     /\ handles[h].idx = i
                     /\ handles[h].rec.Value = NewHandle.rec.Value
               /\ i \in DOMAIN reachable'
               /\ i \notin DOMAIN unreachable'
               /\ reachable'[i].refs = 2 )]_vars

\* Two Fetch calls on an absent key overlapped; the first has returned its
\* handle and the second is waiting for the mutex.
C9_Witness ==
    /\ race.left = 1
    /\ race.clean
    /\ race.calls = 1
    /\ \E p \in Procs : pending[p] # NoKey /\ index(pending[p]) = race.idx
    /\ race.idx \in DOMAIN reachable
    /\ reachable[race.idx].refs = 1
    /\ \E h \in DOMAIN handles :
          Held(h) /\ handles[h].produced /\ handles[h].idx = race.idx

\* C10: no call of Close panics.
C10_CloseTwiceIsSafe == ~panicked

\* The step is the unref goroutine of handle h.
UnrefStep(h) ==
    /\ h \in DOMAIN handles
    /\ handles[h].st = "dropped"
    /\ handles'[h].st = "done"

\* The record is expired in the sense of the expiry predicate: its grace
\* window or its maxTTL has elapsed.
Expired(r) == ~GraceNotElapsed(r) \/ ~MaxTTLNotElapsed(r)

\* C11: on a closed cache (Close was called once) a waiting Fetch and a
\* scheduled unref can always run, and Fetch acts as on an open cache: on an absent key it stores the produced
\* value with one reference, or changes nothing when the callback fails; on a
\* stored, unexpired key it reuses the record and adds a reference.  An unref
\* that takes the last reference moves the record to the unreachable map,
\* stamped with the current time.
C11_UseAfterClose ==
    [][(quit = "closed" /\ ~panicked) =>
        /\ \A p \in Procs :
              pending[p] # NoKey
              => \A ok \in BOOLEAN : ENABLED FetchLocked(p, 0, 0, ok)
        /\ \A h \in DOMAIN handles :
              handles[h].st = "dropped" => ENABLED Unref(h)
        /\ \A p \in Procs :
              LET i == index(pending[p]) IN
              FetchStep(p) =>
                /\ (~Stored(i) /\ Issued)
                   => ( /\ NewHandle.produced
                        /\ i \in DOMAIN reachable'
                        /\ reachable'[i] = NewHandle.rec
                        /\ reachable'[i].refs = 1
                        /\ CacheLen' = CacheLen + 1 )
                /\ (~Stored(i) /\ ~Issued)
                   => (reachable' = reachable /\ unreachable' = unreachable)
                /\ (Stored(i) /\ ~Expired(StoredRec(i)))
                   => ( /\ Issued
                        /\ ~NewHandle.produced
                        /\ NewHandle.rec.Value = StoredRec(i).Value
                        /\ i \in DOMAIN reachable'
                        /\ reachable'[i].refs = StoredRec(i).refs + 1
                        /\ CacheLen' = CacheLen )
        /\ \A h \in DOMAIN handles :
              LET i == handles[h].idx IN
              (UnrefStep(h) /\ i \in DOMAIN reachable /\ reachable[i].refs = 1)
              => ( /\ i \notin DOMAIN reachable'
                   /\ i \in DOMAIN unreachable'
                   /\ unreachable'[i].refs = 0
                   /\ unreachable'[i].lastUnref = now
                   /\ unreachable'[i].Value = reachable[i].Value )]_vars

\* A closed cache, its loop gone, in use: one record is referenced by a held
\* handle obtained by a hit, another was moved to the unreachable map by an
\* unref.
C11_Witness ==
    /\ quit = "closed"
    /\ gcPc = "exit"
    /\ ~panicked
    /\ \E h \in DOMAIN handles :
          /\ Held(h)
          /\ ~handles[h].produced
          /\ handles[h].idx \in DOMAIN reachable
    /\ unreachable # <<>>

\* The handles of the record r stored under index i whose unref has not run.
LiveHandlesOf(i, r) ==
    {h \in DOMAIN handles :
        Live(h) /\ handles[h].idx = i /\ handles[h].rec.Value = r.Value}

\* C12: the reference count of a stored record equals the number of handles
\* issued for that record whose unref has not run yet.
C12_RefCountAccounting ==
    \A i \in Indices :
        Stored(i) => StoredRec(i).refs = Cardinality(LiveHandlesOf(i, StoredRec(i)))

\* C13: a record in the reachable map has no lastUnref.
C13_ReachableNeverUnreferenced ==
    \A i \in DOMAIN reachable : reachable[i].lastUnref = 0

\* C14: a record in the reachable map has at least one reference, and no more
\* than handles were issued (the count never wrapped around); a record in the
\* unreachable map has none and carries the time it lost the last one.
C14_StorePartition ==
    /\ \A i \in DOMAIN reachable :
          /\ reachable[i].refs >= 1
          /\ reachable[i].refs <= Len(handles)
    /\ \A i \in DOMAIN unreachable :
          /\ unreachable[i].refs = 0
          /\ unreachable[i].lastUnref > 0

\* After a failing Fetch, an unref of the last reference and a sweep tick, one
\* record is referenced twice and another is unreferenced.
C14_Witness ==
    /\ \E i \in DOMAIN reachable : reachable[i].refs = 2
    /\ \E i \in DOMAIN unreachable : unreachable[i].lastUnref > 0
    /\ \E h \in DOMAIN handles : handles[h].st = "done"

\* C15: no index is in both maps, so Len() counts every cached index once.
C15_MapsDisjoint ==
    /\ DOMAIN reachable \cap DOMAIN unreachable = {}
    /\ CacheLen = Cardinality({i \in Indices : Stored(i)})

\* A record was reactivated (moved from the unreachable to the reachable map)
\* while another one sits in the unreachable map.
C15_Witness ==
    /\ \E i \in DOMAIN reachable : reachable[i].lastUnref > 0
    /\ unreachable # <<>>
    /\ CacheLen = 2

\* The record is expired at time t: its grace window or its maxTTL has
\* elapsed by then.
ExpiredAt(r, t) ==
    \/ r.lastUnref > 0 /\ r.lastUnref + r.minTTL < t
    \/ r.expires > 0 /\ r.expires < t

\* The step is a sweep pass of the loop that deleted something: no Fetch,
\* finalizer, unref, clock, Close or loop exit step leaves all of these alone.
SweepStep ==
    /\ unreachable' # unreachable
    /\ handles' = handles
    /\ pending' = pending

\* C16: a sweep pass leaves the reachable map alone and deletes from the
\* unreachable map exactly the records expired at the tick's time, keeping
\* the others as they are; a record leaves the reachable map only by a Fetch
\* on its index or by an unref that moves it to the unreachable map.
C16_SweepFrame ==
    [][ /\ SweepStep =>
            /\ reachable' = reachable
            /\ \E t \in 1..now :
                  /\ DOMAIN unreachable' =
                        {k \in DOMAIN unreachable : ~ExpiredAt(unreachable[k], t)}
                  /\ \A k \in DOMAIN unreachable' :
                        unreachable'[k] = unreachable[k]
        /\ \A i \in DOMAIN reachable :
              i \notin DOMAIN reachable'
              => \/ \E p \in Procs : FetchStep(p) /\ index(pending[p]) = i
                 \/ \E h \in DOMAIN handles :
                       /\ UnrefStep(h)
                       /\ handles[h].idx = i
                       /\ i \in DOMAIN unreachable' ]_vars

\* Two records were produced at time 1 under two indices; the first one's
\* only handle is gone and the record with it, which only a sweep can have
\* deleted; the second, maxTTL elapsed, is still held and still stored.
C16_Witness ==
    /\ now = 3
    /\ nProduced = 2
    /\ Len(handles) = 2
    /\ handles[1].st = "done"
    /\ Held(2)
    /\ handles[2].produced
    /\ handles[2].rec.expires = 2
    /\ handles[2].idx \in DOMAIN reachable
    /\ reachable[handles[2].idx].Value = handles[2].rec.Value
    /\ unreachable = <<>>
    /\ CacheLen = 1

\* C17: the record a successful Fetch returns, which is the record it stores
\* in the reachable map, is not expired at the time of the Fetch; when the
\* record found under the key is expired, the producer is invoked and the
\* handle refers to the value it made.
C17_NeverHandsOutExpired ==
    [][\A p \in Procs :
          LET i == index(pending[p]) IN
          (FetchStep(p) /\ Issued) =>
            /\ ~ExpiredAt(NewHandle.rec, now)
            /\ i \in DOMAIN reachable'
            /\ reachable'[i] = NewHandle.rec
            /\ i \notin DOMAIN unreachable'
            /\ (Stored(i) /\ ExpiredAt(StoredRec(i), now))
               => ( /\ NewHandle.produced
                    /\ NewHandle.rec.Value # StoredRec(i).Value )]_vars

\* The second Fetch of a key found the record of the first, still held, past
\* its maxTTL and produced a new value.
C17_Witness ==
    /\ Len(handles) = 2
    /\ Live(1)
    /\ Held(2)
    /\ handles[1].idx = handles[2].idx
    /\ handles[1].rec.expires > 0
    /\ handles[1].rec.expires < now
    /\ handles[2].produced
    /\ handles[2].rec.Value # handles[1].rec.Value

\* C18: once Close was called, no sweep pass deletes a record.
C18_NoSweepAfterClose == [][quit = "closed" => ~SweepStep]_vars

\* C19: Value, minTTL and expires of the record stored under an index change
\* only by a Fetch on that index that invokes the producer; a hit returns the
\* stored record's three fields whatever its own minTTL and maxTTL.
C19_TTLsFixedAtCreation ==
    [][ /\ \A i \in Indices :
              (Stored(i)' /\ ~( /\ Stored(i)
                                /\ StoredRec(i)'.Value = StoredRec(i).Value
                                /\ StoredRec(i)'.minTTL = StoredRec(i).minTTL
                                /\ StoredRec(i)'.expires = StoredRec(i).expires ))
              => \E p \in Procs :
                    /\ FetchStep(p)
                    /\ index(pending[p]) = i
                    /\ Issued
                    /\ NewHandle.produced
                    /\ NewHandle.rec.Value = nProduced'
                    /\ nProduced' = nProduced + 1
        /\ \A p \in Procs :
              LET i == index(pending[p]) IN
              (FetchStep(p) /\ Issued /\ ~NewHandle.produced) =>
                /\ Stored(i)
                /\ NewHandle.rec.Value = StoredRec(i).Value
                /\ NewHandle.rec.minTTL = StoredRec(i).minTTL
                /\ NewHandle.rec.expires = StoredRec(i).expires ]_vars

\* A record made with minTTL 1 and maxTTL 1 was unreferenced, reactivated by
\* a hit and hit once more: it still has the TTLs of its creation.
C19_Witness ==
    \E i \in DOMAIN reachable :
        /\ reachable[i].refs = 2
        /\ reachable[i].lastUnref > 0
        /\ reachable[i].minTTL = 1
        /\ reachable[i].expires = 2
        /\ nProduced = 1
        /\ nCalls = 3

\* ---------------------------------------------- wide minTTL arguments
\* minTTL arguments up to the largest int64 duration.
WideTTLs == TTLs \cup {IntMax - 1, IntMax}

\* One goroutine fetching one key, with minTTL drawn from the whole int64
\* range, the finalizers, the unref goroutines and the loop's ticks.
WideNext ==
    \/ Tick
    \/ FetchCall("p1", "a")
    \/ \E minTTL \in WideTTLs, maxTTL \in TTLs, ok \in BOOLEAN :
          FetchLocked("p1", minTTL, maxTTL, ok)
    \/ \E h \in 1..MaxCalls : Finalize(h)
    \/ \E h \in 1..MaxCalls : Unref(h)
    \/ \E t \in 1..MaxTime : GcTick(t)

WideSpec == Init /\ [][WideNext]_vars

\* C20: for every stored record and every time up to now, isExpired decides
\* as the expiry predicate computed without overflow does: the grace clause
\* holds only when the time is really later than lastUnref + minTTL.
C20_GraceDoesNotWrap ==
    \A i \in Indices :
        Stored(i) =>
            \A t \in 1..now : isExpired(StoredRec(i), t) = ExpiredAt(StoredRec(i), t)

====
